---------------------------- MODULE Spec2Model ----------------------------
(***************************************************************************)
(* Distributed finite state machines over MPI (mpi-fsm).                   *)
(*                                                                         *)
(* One ROOT process (rank 0) broadcasts random symbols of {A,B,C} to       *)
(* num_nodes-1 non-root processes.  Every non-root process runs the same   *)
(* guarded automaton Q0 -> Q1 -> Q2 -> Q3 and, on entering Q3, sends one   *)
(* ACK to ROOT and leaves its loop.  ROOT leaves its loop when it has      *)
(* counted num_nodes-1 ACK messages (mpi-fsm-4.c).                         *)
(*                                                                         *)
(* A message is an array of MSG_SIZE equal ints; it is modelled by the     *)
(* value of its elements (msg[0]).  MPI point-to-point channels are        *)
(* modelled as FIFO queues, one per ordered pair of processes.             *)
(*                                                                         *)
(* Granularity.  ROOT takes one step per statement that communicates:      *)
(* drawing and building the message, each MPI_Send of the send loop, and   *)
(* the MPI_Iprobe with the MPI_Recv and the count that follow it.  A       *)
(* non-root process takes one step per pass of its loop: MPI_Recv, the     *)
(* switch and, in the final branch, the MPI_Send of ACK and ++done.        *)
(*                                                                         *)
(* Transport.  MPI_Send is a standard-mode blocking send: it returns once  *)
(* the message is buffered.  A message sent is at once visible to the      *)
(* receiver's MPI_Recv or MPI_Iprobe.  At most ChanCap undelivered         *)
(* messages are buffered for a process that is still receiving (ROOT's     *)
(* send waits for room); messages to a process that has left its loop are  *)
(* never received and are buffered without limit.                          *)
(*                                                                         *)
(* Histories.  bcast, consumed, acks_sent and ackfrom record what has      *)
(* happened and are read by no action's guard except the cap on recorded   *)
(* rounds: with rec = TRUE (Spec) at most MaxRounds symbols are drawn; with *)
(* rec = FALSE (LiveSpec) nothing is recorded and the draws never stop.    *)
(*                                                                         *)
(* Specifications.  Spec and LiveSpec are the program mpi-fsm-4.c alone.   *)
(* DupSpec and BadSpec add an environment that repeats an ACK or puts a    *)
(* value of the wrong kind into a channel.  Spec2 is mpi-fsm-2.c, whose    *)
(* ROOT broadcasts a fixed number of rounds and counts nothing.            *)
(***************************************************************************)
EXTENDS Integers, Sequences, FiniteSets, TLC

\* ------------------------------------------------------------------ bounds
MaxNodes == 3
MaxRounds == 5
ChanCap == 2
MaxRand == 5
MaxDup == 1

\* ------------------------------------------------------- program constants
ROOT == 0
NUM_SYMBOLS == 3
A == 0
B == 1
C == 2
ACK == 3
R0 == 0
Q0 == 0
Q1 == 1
Q2 == 2
Q3 == 3
\* the value every element of msg holds before the first message is built
MSG_INIT == -1

Symbols == {A, B, C}
States == {Q0, Q1, Q2, Q3}

VARIABLES
  num_nodes,   \* MPI_Comm_size
  rec,         \* history recording switch (ghost): TRUE records bcast/consumed
  rpc,         \* ROOT's position: "draw", "send", "probe", "end"
  root_state,  \* ROOT's my_state
  tmpmsg,      \* ROOT's tmpmsg
  rmsg,        \* ROOT's msg buffer
  j,           \* ROOT's send loop index
  i,           \* ROOT's round counter in mpi-fsm-2.c (for (i=0;i<50;i++))
  ACK_COUNT,   \* ROOT's ACK_COUNT
  rdone,       \* ROOT's done
  my_state,    \* my_state of each non-root process
  wdone,       \* done of each non-root process
  wmsg,        \* msg buffer of each non-root process
  chan,        \* chan[w]: messages sent by ROOT to w and not yet received
  ackch,       \* ackch[w]: messages sent by w to ROOT and not yet received
  bcast,       \* (ghost) symbols drawn by ROOT so far
  consumed,    \* (ghost) consumed[w]: symbols received by w so far
  acks_sent,   \* (ghost) acks_sent[w]: number of messages w sent to ROOT
  ackfrom      \* (ghost) status.MPI_SOURCE of each message ROOT received

rootvars == <<rpc, root_state, tmpmsg, rmsg, j, i, ACK_COUNT, rdone>>
workvars == <<my_state, wdone, wmsg>>
netvars == <<chan, ackch>>
ghostvars == <<bcast, consumed, acks_sent, ackfrom>>
vars == <<num_nodes, rec, rootvars, workvars, netvars, ghostvars>>

Workers == 1 .. (num_nodes - 1)

\* ------------------------------------------------------------ the automaton
\* (mutant) the A column of row Q0 skips a state
DELTA_PROC_Skip == << <<Q2, Q0, Q0>>,
                      <<Q1, Q2, Q1>>,
                      <<Q2, Q2, Q3>>,
                      <<Q3, Q3, Q3>> >>

\* (mutant) row Q1 never leaves Q1
DELTA_PROC_Stuck == << <<Q1, Q0, Q0>>,
                       <<Q1, Q1, Q1>>,
                       <<Q2, Q2, Q3>>,
                       <<Q3, Q3, Q3>> >>

\* (mutant) B in Q1 goes straight to the final state
DELTA_PROC_Early == << <<Q1, Q0, Q0>>,
                       <<Q1, Q3, Q1>>,
                       <<Q2, Q2, Q3>>,
                       <<Q3, Q3, Q3>> >>

\* (mutant) A in Q1 goes back to Q0 (the table of a recogniser of A B C in a row)
DELTA_PROC_Back == << <<Q1, Q0, Q0>>,
                      <<Q0, Q2, Q1>>,
                      <<Q2, Q2, Q3>>,
                      <<Q3, Q3, Q3>> >>

DELTA_PROC == << <<Q1, Q0, Q0>>,
                 <<Q1, Q2, Q1>>,
                 <<Q2, Q2, Q3>>,
                 <<Q3, Q3, Q3>> >>

next_state_proc(state, symbol) == DELTA_PROC[state + 1][symbol + 1]

DELTA_ROOT == << <<R0, R0, R0>> >>

next_state_root(state, symbol) == DELTA_ROOT[state + 1][symbol + 1]

get_random_msg(r) == r % NUM_SYMBOLS

\* (mutant) case B tests the wrong state
GuardTaken_WrongB(s, m) ==
  \/ m = A /\ s = Q0
  \/ m = B /\ s = Q2
  \/ m = C /\ s = Q2

\* The guard of the switch of a non-root process: the branch of case m whose
\* if-condition holds in state s.
GuardTaken(s, m) ==
  \/ m = A /\ s = Q0
  \/ m = B /\ s = Q1
  \/ m = C /\ s = Q2

\* (mutant) case C sends ACK whatever the state
FinalBranch_AnyC(s, m) == m = C

\* The branch that also builds and sends ACK and increments done.
FinalBranch(s, m) == m = C /\ s = Q2

\* (mutant) a symbol that does not advance restarts the automaton
SwitchState_Reset(s, m) == IF GuardTaken(s, m) THEN next_state_proc(s, m) ELSE Q0

\* my_state after one pass through the switch on message m.
SwitchState(s, m) == IF GuardTaken(s, m) THEN next_state_proc(s, m) ELSE s

\* ------------------------------------------------------------------- Init
InitFor(n, r) ==
  /\ num_nodes = n
  /\ rec = r
  /\ rpc = "draw"
  /\ root_state = R0
  /\ tmpmsg = MSG_INIT   \* not initialised in the source; written before read
  /\ rmsg = MSG_INIT
  /\ j = 1               \* not initialised in the source; written before read
  /\ i = 0
  /\ ACK_COUNT = 0
  /\ rdone = 0
  /\ my_state = [w \in 1 .. (n - 1) |-> Q0]
  /\ wdone = [w \in 1 .. (n - 1) |-> 0]
  /\ wmsg = [w \in 1 .. (n - 1) |-> MSG_INIT]
  /\ chan = [w \in 1 .. (n - 1) |-> <<>>]
  /\ ackch = [w \in 1 .. (n - 1) |-> <<>>]
  /\ bcast = <<>>
  /\ consumed = [w \in 1 .. (n - 1) |-> <<>>]
  /\ acks_sent = [w \in 1 .. (n - 1) |-> 0]
  /\ ackfrom = <<>>

Init == \E n \in 1 .. MaxNodes : InitFor(n, TRUE)

\* ------------------------------------------------------------------- ROOT
\* (mutant) the buffer is sent as it is, without being rebuilt
BuildMsg_Stale(old, t) == old

\* for (i=0;i<MSG_SIZE;i++) msg[i] = tmpmsg: the buffer old becomes t
BuildMsg(old, t) == t

\* (mutant) the transport hands over the newest message first
Enqueue_Front(q, m) == <<m>> \o q

\* The channel q after MPI_Send put message m into it.
Enqueue(q, m) == Append(q, m)

\* while (!done) { tmpmsg = get_random_msg(); build msg; j = 1; ...
RootDraw(r) ==
  /\ rpc = "draw"
  /\ rdone = 0
  /\ rec => Len(bcast) < MaxRounds
  /\ tmpmsg' = get_random_msg(r)
  /\ rmsg' = BuildMsg(rmsg, tmpmsg')
  /\ j' = 1
  /\ rpc' = IF 1 < num_nodes THEN "send" ELSE "probe"
  /\ bcast' = IF rec THEN Append(bcast, tmpmsg') ELSE bcast
  /\ UNCHANGED <<num_nodes, rec, root_state, i, ACK_COUNT, rdone>>
  /\ UNCHANGED <<workvars, netvars, consumed, acks_sent, ackfrom>>

\* Room in the transport for one more message to process w.
CanSend(w) == Len(chan[w]) < ChanCap \/ wdone[w] # 0

\* for (j=1;j<num_nodes;j++) MPI_Send(&msg,...,j,...)
RootSend ==
  /\ rpc = "send"
  /\ j < num_nodes
  /\ CanSend(j)
  /\ chan' = [chan EXCEPT ![j] = Enqueue(@, rmsg)]
  /\ j' = j + 1
  /\ rpc' = IF j' < num_nodes THEN "send" ELSE "probe"
  /\ UNCHANGED <<num_nodes, rec, root_state, tmpmsg, rmsg, i, ACK_COUNT, rdone>>
  /\ UNCHANGED <<workvars, ackch, ghostvars>>

\* (mutant) off by one: compares with num_nodes-2
AllAcked_OffByOne(n, count) == n - 2 = count

\* if (num_nodes-1 == ++ACK_COUNT)
AllAcked(n, count) == n - 1 = count

\* The processes MPI_Iprobe(MPI_ANY_SOURCE, ...) can report a message from.
Pending == {w \in Workers : ackch[w] # <<>>}

\* (mutant) the probed message is not taken out of the channel
AfterRecv_Stale(q) == q

\* A channel to ROOT after ROOT's MPI_Recv took its first message.
AfterRecv(q) == Tail(q)

\* (mutant) after a message ROOT probes again instead of starting a round
AfterProbe_Drain(d) == IF d # 0 THEN "end" ELSE "probe"

\* ROOT's position after the if (1 == flag) block: the loop test while (!done)
AfterProbe(d) == IF d # 0 THEN "end" ELSE "draw"

\* flag=0; MPI_Iprobe(...); if (1 == flag) { MPI_Recv from source; count }
RootProbe ==
  /\ rpc = "probe"
  /\ IF Pending = {}
       THEN /\ rpc' = "draw"
            /\ UNCHANGED <<rmsg, ACK_COUNT, rdone, ackch, ackfrom>>
       ELSE \E source \in Pending :
            /\ rmsg' = Head(ackch[source])
            /\ ackch' = [ackch EXCEPT ![source] = AfterRecv(@)]
            /\ ACK_COUNT' = ACK_COUNT + 1
            /\ rdone' = IF AllAcked(num_nodes, ACK_COUNT') THEN rdone + 1 ELSE rdone
            /\ ackfrom' = Append(ackfrom, source)
            /\ rpc' = AfterProbe(rdone')
  /\ UNCHANGED <<num_nodes, rec, root_state, tmpmsg, j, i>>
  /\ UNCHANGED <<workvars, chan, bcast, consumed, acks_sent>>

\* --------------------------------------------------------------- non-root
\* (mutant) my_state is one variable shared by all non-root processes
StateAfter_Shared(w, m) == [v \in Workers |-> SwitchState(my_state[v], m)]

\* my_state = next_state_proc(my_state, msg[0]) in process w only
StateAfter(w, m) == [my_state EXCEPT ![w] = SwitchState(@, m)]

\* (mutant) the loop condition ignores done
Looping_Forever(w) == TRUE

\* while (!done) of a non-root process
Looping(w) == wdone[w] = 0

\* One pass of while (!done) { MPI_Recv(&msg,...,ROOT,...); switch (msg[0]) }
WorkerStep(w) ==
  /\ Looping(w)
  /\ chan[w] # <<>>
  /\ LET m == Head(chan[w])
         final == FinalBranch(my_state[w], m)
     IN /\ chan' = [chan EXCEPT ![w] = Tail(@)]
        /\ my_state' = StateAfter(w, m)
        /\ wmsg' = [wmsg EXCEPT ![w] = IF final THEN ACK ELSE m]
        /\ ackch' = IF final THEN [ackch EXCEPT ![w] = Append(@, ACK)] ELSE ackch
        /\ wdone' = IF final THEN [wdone EXCEPT ![w] = @ + 1] ELSE wdone
        /\ acks_sent' = IF final THEN [acks_sent EXCEPT ![w] = @ + 1] ELSE acks_sent
        /\ consumed' = IF rec THEN [consumed EXCEPT ![w] = Append(@, m)] ELSE consumed
  /\ UNCHANGED <<num_nodes, rec, rootvars, bcast, ackfrom>>

Next ==
  \/ \E r \in 0 .. MaxRand : RootDraw(r)
  \/ RootSend
  \/ RootProbe
  \/ \E w \in Workers : WorkerStep(w)

Spec == Init /\ [][Next]_vars

\* ---------------------------------------------------- a faulty environment
\* A second ACK message of a process that has sent its ACK reaches ROOT (no
\* process of the program sends one: this is the case the duplicate
\* acknowledgment rule of the specification is about).
DupAck(w) ==
  /\ acks_sent[w] >= 1
  /\ acks_sent[w] < 1 + MaxDup
  /\ ackch' = [ackch EXCEPT ![w] = Append(@, ACK)]
  /\ acks_sent' = [acks_sent EXCEPT ![w] = @ + 1]
  /\ UNCHANGED <<num_nodes, rec, rootvars, workvars, chan, bcast, consumed, ackfrom>>

DupNext ==
  \/ Next
  \/ \E w \in Workers : DupAck(w)

DupSpec == Init /\ [][DupNext]_vars

\* ---------------------------------------------------------------- liveness
\* Histories off: the draws are not capped and the behaviours are infinite.
LiveInit == \E n \in 1 .. MaxNodes : InitFor(n, FALSE)

\* rand() is a fair source: each symbol keeps being drawn while ROOT keeps
\* drawing.  Every process that can take a step eventually takes one.
DrawSymbol(s) == \E r \in 0 .. MaxRand : get_random_msg(r) = s /\ RootDraw(r)

Fairness ==
  /\ \A s \in Symbols : SF_vars(DrawSymbol(s))
  /\ WF_vars(RootSend)
  /\ WF_vars(RootProbe)
  /\ \A w \in 1 .. MaxNodes : WF_vars(w \in Workers /\ WorkerStep(w))

LiveSpec == LiveInit /\ [][Next]_vars /\ Fairness

\* ------------------------------------------------------------------ claims
AllFinal == \A w \in Workers : my_state[w] = Q3

\* C2: with at least one non-root process, fair draws and fair scheduling,
\* every non-root process ends in Q3 and ROOT ends its loop for good; done is
\* incremented once only (it is never above 1).
C2_Terminates ==
  /\ [](rdone \in {0, 1})
  /\ (num_nodes >= 2) => <>[](rdone = 1 /\ rpc = "end" /\ AllFinal)

C2_Witness == num_nodes = 3 /\ rdone = 1 /\ rpc = "end" /\ AllFinal /\ ACK_COUNT = 2

\* S contains an A, a later B and a still later C.
HasABC(S) ==
  \E a, b, c \in 1 .. Len(S) :
    a < b /\ b < c /\ S[a] = A /\ S[b] = B /\ S[c] = C

Range(S) == {S[k] : k \in DOMAIN S}

\* C1: when ROOT has left its loop (done set, or past the loop), every
\* non-root process is in Q3 and has sent its ACK.
C1_DoneImpliesAllFinal ==
  (rdone # 0 \/ rpc = "end") =>
    \A w \in Workers : my_state[w] = Q3 /\ acks_sent[w] = 1 /\ wdone[w] # 0

C1_Witness == num_nodes = 3 /\ rdone = 1 /\ rpc = "end" /\ Len(bcast) = 5

\* C3: a non-root process is in Q3 exactly when the symbols it received
\* contain A, later B, later C; otherwise it is in Q0, Q1 or Q2 and still in
\* its receive loop.
C3_Subsequence ==
  \A w \in Workers :
    IF HasABC(consumed[w])
      THEN my_state[w] = Q3
      ELSE my_state[w] \in {Q0, Q1, Q2} /\ wdone[w] = 0

\* scenario 1 of the specification: [C, B, A, B, C]
C3_Witness ==
  \E w \in Workers :
    consumed[w] = <<C, B, A, B, C>> /\ my_state[w] = Q3 /\ acks_sent[w] = 1

\* C4: every step leaves my_state of each non-root process unchanged or moves
\* it one position up the chain Q0, Q1, Q2, Q3; no step leaves Q3.
C4_AdvanceByOne ==
  [][\A w \in Workers :
       /\ my_state'[w] = my_state[w] \/ my_state'[w] = my_state[w] + 1
       /\ my_state'[w] \in States
       /\ my_state[w] = Q3 => my_state'[w] = Q3]_vars

C4_Witness ==
  \E w \in Workers : my_state[w] = Q3 /\ consumed[w] = <<A, A, B, B, C>>

\* C5: ACK is sent in exactly the step that receives C in Q2 and enters Q3;
\* a non-root process never sends more than one, and has sent one exactly
\* when it is in Q3.
C5_AckWithFinalStep ==
  /\ [][\A w \in Workers :
          (acks_sent'[w] # acks_sent[w] \/ ackch'[w] = Append(ackch[w], ACK))
            <=> /\ my_state[w] = Q2
                /\ my_state'[w] = Q3
                /\ chan[w] # <<>>
                /\ Head(chan[w]) = C
                /\ chan'[w] = Tail(chan[w])
                /\ acks_sent'[w] = acks_sent[w] + 1
                /\ ackch'[w] = Append(ackch[w], ACK)]_vars
  /\ [](\A w \in Workers :
          /\ acks_sent[w] <= 1
          /\ my_state[w] = Q3 <=> acks_sent[w] = 1)

C5_Witness ==
  \E w \in Workers : my_state[w] = Q3 /\ acks_sent[w] = 1 /\ ackch[w] = <<ACK>>

\* C6: once a non-root process is in Q3 no step changes its state, receives
\* for it or sends from it; what ROOT sends to it stays in its channel.
C6_QuiescentInFinal ==
  [][\A w \in Workers :
       my_state[w] = Q3 =>
         /\ my_state'[w] = Q3
         /\ consumed'[w] = consumed[w]
         /\ acks_sent'[w] = acks_sent[w]
         /\ wdone'[w] = wdone[w]
         /\ chan'[w] = chan[w] \/ chan'[w] = Append(chan[w], rmsg)]_vars

C6_Witness ==
  \E w \in Workers : my_state[w] = Q3 /\ Len(chan[w]) >= 2 /\ acks_sent[w] = 1

\* C7: when ROOT receives a message from a process it has already counted,
\* ACK_COUNT and done do not change.
C7_DuplicateNoOp ==
  [][\A w \in Workers :
       (ackfrom' = Append(ackfrom, w) /\ w \in Range(ackfrom)) =>
         ACK_COUNT' = ACK_COUNT /\ rdone' = rdone]_vars

\* C8: when ROOT has set done it has received exactly one message from each
\* non-root process and none twice.
C8_DistinctAcks ==
  rdone # 0 =>
    /\ ACK_COUNT = num_nodes - 1
    /\ Len(ackfrom) = num_nodes - 1
    /\ Range(ackfrom) = Workers
    /\ \A w \in Workers : ackch[w] = <<>>

C8_Witness == rdone = 1 /\ ackfrom = <<2, 1>>

\* the pairs of the claim: the three advancing (state, symbol) pairs
Advancing(s, m) == <<s, m>> \in {<<Q0, A>>, <<Q1, B>>, <<Q2, C>>}

\* C9: a step in which a non-root process receives a symbol that does not
\* advance it leaves its state unchanged, sends nothing and leaves it in its
\* receive loop.
C9_NonAdvancingNoOp ==
  [][\A w \in Workers : \A m \in Symbols :
       (consumed'[w] = Append(consumed[w], m) /\ ~Advancing(my_state[w], m)) =>
         /\ my_state'[w] = my_state[w]
         /\ ackch'[w] = ackch[w]
         /\ acks_sent'[w] = acks_sent[w]
         /\ wdone'[w] = 0]_vars

\* the same symbol three times in a row, then another twice
C9_Witness ==
  \E w \in Workers : consumed[w] = <<A, A, A, B, B>> /\ my_state[w] = Q2

\* C10: as long as no C has been drawn, every non-root process is in Q0, Q1
\* or Q2, no ACK has been sent or counted and ROOT is in its loop.
C10_NoCNoCompletion ==
  C \notin Range(bcast) =>
    /\ \A w \in Workers :
         /\ my_state[w] \in {Q0, Q1, Q2}
         /\ acks_sent[w] = 0
         /\ ackch[w] = <<>>
         /\ wdone[w] = 0
    /\ ACK_COUNT = 0
    /\ rdone = 0
    /\ rpc # "end"

C10_Witness ==
  /\ C \notin Range(bcast)
  /\ Len(bcast) = 5
  /\ \E w \in Workers : my_state[w] = Q2 /\ Len(consumed[w]) = 5


\* C11: every message in a channel from ROOT, and every message a non-root
\* process has received, is A, B or C; the buffer ROOT sends from holds a
\* symbol whenever ROOT is in its send loop, also after a received ACK has
\* overwritten it; every message in a channel to ROOT is ACK.
C11_ChannelTyping ==
  /\ \A w \in Workers :
       /\ \A k \in DOMAIN chan[w] : chan[w][k] \in Symbols
       /\ \A k \in DOMAIN consumed[w] : consumed[w][k] \in Symbols
       /\ \A k \in DOMAIN ackch[w] : ackch[w][k] = ACK
       /\ wdone[w] = 0 => wmsg[w] \in Symbols \cup {MSG_INIT}
  /\ rpc = "send" => rmsg \in Symbols
  /\ ackfrom # <<>> /\ rpc \in {"draw", "end"} => rmsg \in Symbols \cup {ACK}

\* ROOT has received an ACK into its buffer and has broadcast again since
C11_Witness ==
  /\ num_nodes = 3
  /\ Len(ackfrom) = 1
  /\ rpc = "probe"
  /\ rmsg \in Symbols
  /\ \E w \in Workers : wdone[w] # 0 /\ Len(chan[w]) = 2


\* ------------------------------------------- a transport that corrupts
\* Values no process of the program sends on the channel they arrive on:
\* to a non-root process anything but A, B, C; to ROOT anything but ACK.
BadForWorker == {ACK, MSG_INIT}
BadForRoot == {A}

\* A message that is not a symbol arrives for non-root process w, before w
\* has received anything.
BadToWorker(w, v) ==
  /\ wdone[w] = 0
  /\ consumed[w] = <<>>
  /\ Len(chan[w]) < MaxDup
  /\ chan' = [chan EXCEPT ![w] = Append(@, v)]
  /\ UNCHANGED <<num_nodes, rec, rootvars, workvars, ackch, ghostvars>>

\* A message that is not ACK arrives at ROOT, with w as its source, before
\* ROOT has received anything.
BadToRoot(w, v) ==
  /\ acks_sent[w] < MaxDup
  /\ ackfrom = <<>>
  /\ \A u \in Workers : ackch[u] = <<>>
  /\ ackch' = [ackch EXCEPT ![w] = Append(@, v)]
  /\ acks_sent' = [acks_sent EXCEPT ![w] = @ + 1]
  /\ UNCHANGED <<num_nodes, rec, rootvars, workvars, chan, bcast, consumed, ackfrom>>

BadNext ==
  \/ Next
  \/ \E w \in Workers : \E v \in BadForWorker : BadToWorker(w, v)
  \/ \E w \in Workers : \E v \in BadForRoot : BadToRoot(w, v)

BadSpec == Init /\ [][BadNext]_vars

\* C12: a non-root process that receives a value outside {A,B,C} leaves its
\* loop for good without changing its state or sending; ROOT, on receiving a
\* message that is not ACK, stops without counting it.
C12_ViolationFatal ==
  [][/\ \A w \in Workers : \A v \in BadForWorker :
          (chan[w] # <<>> /\ Head(chan[w]) = v /\ consumed'[w] = Append(consumed[w], v)) =>
            /\ wdone'[w] # 0
            /\ my_state'[w] = my_state[w]
            /\ ackch'[w] = ackch[w]
     /\ \A w \in Workers :
          (ackfrom' = Append(ackfrom, w) /\ Head(ackch[w]) # ACK) =>
            /\ ACK_COUNT' = ACK_COUNT
            /\ rdone' = rdone
            /\ rpc' = "end"]_vars


\* ------------------------------------------------------------ mpi-fsm-2.c
\* The variant without acknowledgments: ROOT broadcasts NumRounds symbols and
\* stops; a non-root process runs the same switch and sends nothing.  msg is
\* one int.  The histories are not recorded.  A message sent to a process
\* that has left its loop is never received and is not kept.
NumRounds == 50

\* (mutant) one round too many
MoreRounds_OffByOne(k) == k <= NumRounds

\* for (i=0;i<50;i++): the loop test
MoreRounds(k) == k < NumRounds

\* ROOT's position after i++ made the counter k
AfterRound(k) == IF MoreRounds(k) THEN "draw" ELSE "end"

Init2 == \E n \in 1 .. MaxNodes : InitFor(n, FALSE)

\* msg = get_random_msg(); j = 1
Root2Draw(r) ==
  /\ rpc = "draw"
  /\ MoreRounds(i)
  /\ rmsg' = get_random_msg(r)
  /\ j' = 1
  /\ IF 1 < num_nodes
       THEN rpc' = "send" /\ i' = i
       ELSE i' = i + 1 /\ rpc' = AfterRound(i')
  /\ UNCHANGED <<num_nodes, rec, root_state, tmpmsg, ACK_COUNT, rdone>>
  /\ UNCHANGED <<workvars, netvars, ghostvars>>

\* for (j=1;j<num_nodes;j++) MPI_Send(&msg,1,MPI_INT,j,...); then i++
Root2Send ==
  /\ rpc = "send"
  /\ j < num_nodes
  /\ CanSend(j)
  /\ chan' = IF wdone[j] # 0 THEN chan ELSE [chan EXCEPT ![j] = Enqueue(@, rmsg)]
  /\ j' = j + 1
  /\ IF j' < num_nodes
       THEN rpc' = "send" /\ i' = i
       ELSE i' = i + 1 /\ rpc' = AfterRound(i')
  /\ UNCHANGED <<num_nodes, rec, root_state, tmpmsg, rmsg, ACK_COUNT, rdone>>
  /\ UNCHANGED <<workvars, ackch, ghostvars>>

\* One pass of while (!done) { MPI_Recv(&msg,1,...); switch (msg) }
Worker2Step(w) ==
  /\ Looping(w)
  /\ chan[w] # <<>>
  /\ LET m == Head(chan[w])
     IN /\ chan' = [chan EXCEPT ![w] = Tail(@)]
        /\ my_state' = StateAfter(w, m)
        /\ wmsg' = [wmsg EXCEPT ![w] = m]
        /\ wdone' = IF FinalBranch(my_state[w], m)
                      THEN [wdone EXCEPT ![w] = @ + 1] ELSE wdone
  /\ UNCHANGED <<num_nodes, rec, rootvars, ackch, ghostvars>>

Next2 ==
  \/ \E r \in 0 .. MaxRand : Root2Draw(r)
  \/ Root2Send
  \/ \E w \in Workers : Worker2Step(w)

Spec2 == Init2 /\ [][Next2]_vars

\* Process w waits in MPI_Recv with nothing to receive, short of Q3.
Blocked(w) == wdone[w] = 0 /\ chan[w] = <<>> /\ my_state[w] \in {Q0, Q1, Q2}

\* C13: in mpi-fsm-2 ROOT has stopped exactly when it has made NumRounds
\* rounds, whatever the states of the other processes; a process that is
\* then short of Q3 with nothing left to receive stays so in every later step.
C13_FixedRounds ==
  /\ [](i <= NumRounds /\ (rpc = "end" <=> i = NumRounds))
  /\ [][\A w \in Workers :
          (rpc = "end" /\ Blocked(w)) =>
            /\ rpc' = "end"
            /\ wdone'[w] = 0
            /\ chan'[w] = <<>>
            /\ my_state'[w] = my_state[w]]_vars

\* ROOT has stopped and both other processes wait in Q2 for a C
C13_Witness ==
  /\ num_nodes = 3
  /\ rpc = "end"
  /\ i = NumRounds
  /\ \A w \in Workers : Blocked(w) /\ my_state[w] = Q2


\* The variables of ROOT and those of non-root process w.
RootLocal == <<rpc, root_state, tmpmsg, rmsg, j, i, ACK_COUNT, rdone>>
WorkerLocal(w) == <<my_state[w], wdone[w], wmsg[w]>>

\* C14: no step changes variables of two processes: a step that changes
\* my_state, done or msg of one non-root process, or receives for it, changes
\* no variable of ROOT
\* and none of another non-root process; a step of ROOT changes no variable
\* of a non-root process; ROOT's state is R0 throughout.
C14_NoSharedState ==
  /\ [](root_state = R0)
  /\ [][/\ \A w \in Workers :
            (WorkerLocal(w)' # WorkerLocal(w) \/ Len(chan'[w]) < Len(chan[w])) =>
              /\ RootLocal' = RootLocal
              /\ \A v \in Workers \ {w} : WorkerLocal(v)' = WorkerLocal(v)
              /\ \A v \in Workers \ {w} : chan'[v] = chan[v] /\ ackch'[v] = ackch[v]
        /\ RootLocal' # RootLocal => workvars' = workvars]_vars

\* both ROOT and two other processes have changed their own variables
C14_Witness ==
  /\ num_nodes = 3
  /\ ACK_COUNT = 1
  /\ rdone = 0
  /\ my_state[1] = Q3
  /\ my_state[2] = Q1


\* C15: with no non-root process ROOT never enters its loop: it draws no
\* symbol.
C15_ZeroWorkersNoBroadcast ==
  num_nodes = 1 => bcast = <<>> /\ tmpmsg = MSG_INIT /\ rpc \in {"draw", "end"}

\* with no non-root process ROOT eventually leaves its loop (for the record:
\* under LiveSpec this fails as well, ROOT draws and probes for ever)
ZeroWorkersTerminates == num_nodes = 1 => <>(rpc = "end")


\* C16: for every state and every symbol the guarded switch gives the state
\* the table gives, and every receive step of a non-root process moves it to
\* the table's entry for its state and the symbol received.
C16_GuardsAddNothing ==
  /\ [](\A s \in States : \A m \in Symbols : SwitchState(s, m) = DELTA_PROC[s + 1][m + 1])
  /\ [][\A w \in Workers : \A m \in Symbols :
          consumed'[w] = Append(consumed[w], m) =>
            my_state'[w] = DELTA_PROC[my_state[w] + 1][m + 1]]_vars

\* symbols received where the guard is off and the table loops
C16_Witness ==
  \E w \in Workers : consumed[w] = <<B, C, A, C, A>> /\ my_state[w] = Q1


\* S is a word of (B|C)* A (A|C)* B (A|B)* C: a and b are the places of the
\* A and the B the expression names, the C is the last symbol.
InLang(S) ==
  /\ Len(S) >= 3
  /\ S[Len(S)] = C
  /\ \E a, b \in 1 .. Len(S) :
       /\ a < b
       /\ b < Len(S)
       /\ S[a] = A
       /\ S[b] = B
       /\ \A k \in 1 .. (a - 1) : S[k] \in {B, C}
       /\ \A k \in (a + 1) .. (b - 1) : S[k] \in {A, C}
       /\ \A k \in (b + 1) .. (Len(S) - 1) : S[k] \in {A, B}

\* C17: a non-root process is in Q3 exactly when the symbols it has received
\* form a word of (B|C)*A(A|C)*B(A|B)*C, and then no proper prefix of them
\* is such a word (it received nothing after entering Q3).
C17_RegularLanguage ==
  \A w \in Workers :
    /\ my_state[w] = Q3 <=> InLang(consumed[w])
    /\ \A k \in 0 .. (Len(consumed[w]) - 1) : ~InLang(SubSeq(consumed[w], 1, k))

C17_Witness ==
  \E w \in Workers : consumed[w] = <<B, A, C, B, C>> /\ my_state[w] = Q3


\* The number of messages the non-root processes have sent to ROOT.
TotalSent ==
  Cardinality(UNION {{<<w, k>> : k \in 1 .. acks_sent[w]} : w \in Workers})

\* C18: ACK_COUNT starts at 0; a step leaves it unchanged or adds 1, and adds
\* 1 only by taking one pending message out of a channel to ROOT; it is
\* never above the number of acknowledgments sent, which is never above the
\* number of non-root processes.
C18_MonotoneCount ==
  /\ ACK_COUNT = 0
  /\ [][\/ ACK_COUNT' = ACK_COUNT
        \/ /\ ACK_COUNT' = ACK_COUNT + 1
           /\ \E w \in Workers :
                /\ ackch[w] # <<>>
                /\ ackch' = [ackch EXCEPT ![w] = Tail(@)]]_vars
  /\ [](/\ 0 <= ACK_COUNT
        /\ ACK_COUNT <= TotalSent
        /\ TotalSent <= num_nodes - 1)

\* one acknowledgment counted, a second one sent and still pending
C18_Witness == ACK_COUNT = 1 /\ TotalSent = 2 /\ rdone = 0 /\ ackch[2] = <<ACK>>


\* The broadcast rounds ROOT has completed: a round is the draw, the sends to
\* every other process and the probe of one pass through while (!done).
Completed == IF rpc \in {"draw", "end"} THEN Len(bcast) ELSE Len(bcast) - 1

Max0(x) == IF x > 0 THEN x ELSE 0

\* C19: ROOT takes an acknowledgment only in the probe that follows the sends
\* of a round, and that probe ends the round, so after r completed rounds
\* ACK_COUNT <= max(0, r-2); ROOT has broadcast at least (num_nodes-1)+2
\* symbols when it terminates; and a send to a process that has already
\* accepted and left its loop is still made, so at termination every other
\* process holds at least num_nodes-2 symbols it will never receive.
C19_OneAckPerRound ==
  /\ [][ACK_COUNT' # ACK_COUNT =>
          /\ rpc = "probe" /\ j = num_nodes
          /\ ACK_COUNT' = ACK_COUNT + 1
          /\ Completed' = Completed + 1]_vars
  /\ [](ACK_COUNT <= Max0(Completed - 2))
  /\ [](rdone # 0 => Len(bcast) >= (num_nodes - 1) + 2)
  /\ [][\A w \in Workers :
          rpc = "send" /\ j = w /\ j' # j /\ wdone[w] # 0 =>
            chan'[w] = Append(chan[w], rmsg)]_vars
  /\ [](rdone # 0 =>
          \A w \in Workers : wdone[w] # 0 /\ Len(chan[w]) >= num_nodes - 2)

\* two other processes, ROOT terminated after the least number of rounds, a
\* symbol left over for a process that had already accepted
C19_Witness ==
  /\ num_nodes = 3 /\ rdone # 0 /\ Len(bcast) = 4 /\ ACK_COUNT = 2
  /\ \E w \in Workers : wdone[w] # 0 /\ Len(chan[w]) = 1


IsPrefix(s, t) == Len(s) <= Len(t) /\ s = SubSeq(t, 1, Len(s))

\* n is the first index at which the prefix of S contains A, B, C in order.
FirstABC(S, n) ==
  /\ n \in 1 .. Len(S)
  /\ HasABC(SubSeq(S, 1, n))
  /\ ~HasABC(SubSeq(S, 1, n - 1))

\* C20: what a process has received is a prefix of what ROOT has broadcast;
\* two processes that have received the same number of symbols are in the
\* same state; a process is in Q3 exactly when the number of symbols it has
\* received is the first index at which the broadcast contains A, B, C as a
\* subsequence, so all processes accept on the same index.
C20_SameInput ==
  /\ \A w \in Workers : IsPrefix(consumed[w], bcast)
  /\ \A w1, w2 \in Workers :
       Len(consumed[w1]) = Len(consumed[w2]) => my_state[w1] = my_state[w2]
  /\ \A w \in Workers :
       my_state[w] = Q3 <=> FirstABC(bcast, Len(consumed[w]))
  /\ \A w1, w2 \in Workers :
       my_state[w1] = Q3 /\ my_state[w2] = Q3 =>
         Len(consumed[w1]) = Len(consumed[w2])

\* both processes accepted on the fourth symbol of five broadcast, one of
\* them after the other had already been counted
C20_Witness ==
  /\ num_nodes = 3 /\ Len(bcast) = 5
  /\ my_state[1] = Q3 /\ my_state[2] = Q3
  /\ Len(consumed[1]) = 4 /\ Len(consumed[2]) = 4
  /\ ackfrom = <<2, 1>>

=============================================================================
